---- MODULE Spec2Model ----
(***************************************************************************)
(* Model of demo/cast_clip.py: clip an asciicast v2 recording to the       *)
(* window [start_s, end_s] and retime the retained events.                 *)
(*                                                                         *)
(* A finite float is modelled at integer granularity inside                *)
(* [-MaxFloat, MaxFloat]; an arithmetic result outside that range          *)
(* overflows to an infinity, as IEEE-754 doubles do.  inf, -inf and nan    *)
(* are modelled explicitly because float() and json.loads() produce them.  *)
(* A text string is a sequence of one-character strings.                   *)
(***************************************************************************)
EXTENDS Integers, Sequences, FiniteSets, TLC

\* Largest finite float magnitude of the model.
MaxFloat == 3
\* Largest number of lines after the header line in an input file.
MaxEvents == 2

----------------------------------------------------------------------------
(* Python floats *)

Fin(n) == [k |-> "fin", n |-> n]
PInf == [k |-> "inf", n |-> 1]
NInf == [k |-> "inf", n |-> -1]
NaN == [k |-> "nan", n |-> 0]

\* rounding of an exact result to the representable range
Round(n) == IF n > MaxFloat THEN PInf ELSE IF n < -MaxFloat THEN NInf ELSE Fin(n)

\* position of a non-nan float on the extended number line
Key(a) == IF a.k = "inf" THEN a.n * (2 * MaxFloat + 2) ELSE a.n

\* a <= b and a < b on floats: every comparison with nan is False
FLe(a, b) == a.k # "nan" /\ b.k # "nan" /\ Key(a) <= Key(b)
FLt(a, b) == a.k # "nan" /\ b.k # "nan" /\ Key(a) < Key(b)

\* a - b on floats
FSub(a, b) ==
  IF a.k = "nan" \/ b.k = "nan" THEN NaN
  ELSE IF a.k = "inf" /\ b.k = "inf" THEN (IF a.n = b.n THEN NaN ELSE a)
  ELSE IF a.k = "inf" THEN a
  ELSE IF b.k = "inf" THEN [k |-> "inf", n |-> 0 - b.n]
  ELSE Round(a.n - b.n)

----------------------------------------------------------------------------
(* Text and float(str) *)

Digits == {"0", "1", "2", "3", "4", "5", "6", "7", "8", "9"}

DigitOf(c) ==
  CASE c = "0" -> 0 [] c = "1" -> 1 [] c = "2" -> 2 [] c = "3" -> 3
    [] c = "4" -> 4 [] c = "5" -> 5 [] c = "6" -> 6 [] c = "7" -> 7
    [] c = "8" -> 8 [] c = "9" -> 9

RECURSIVE DigitsVal(_)
DigitsVal(s) ==
  IF s = <<>> THEN 0
  ELSE 10 * DigitsVal(SubSeq(s, 1, Len(s) - 1)) + DigitOf(s[Len(s)])

RECURSIVE Strip(_)
Strip(s) ==
  IF s = <<>> THEN s
  ELSE IF Head(s) = " " THEN Strip(Tail(s))
  ELSE IF s[Len(s)] = " " THEN Strip(SubSeq(s, 1, Len(s) - 1))
  ELSE s

Result(ok, f, err) == [ok |-> ok, f |-> f, err |-> err]

\* float(s) for a str s: surrounding whitespace is ignored, then an optional
\* sign and either a run of decimal digits or one of inf, infinity, nan.
\* (Fractions and exponents lie below the granularity of the model and are
\* not part of the modelled alphabet.)
ParseFloat(s) ==
  LET b == Strip(s)
      signed == b # <<>> /\ Head(b) \in {"+", "-"}
      neg == b # <<>> /\ Head(b) = "-"
      body == IF signed THEN Tail(b) ELSE b
  IN  IF body = <<"i", "n", "f">> \/ body = <<"i", "n", "f", "i", "n", "i", "t", "y">>
        THEN Result(TRUE, IF neg THEN NInf ELSE PInf, "")
      ELSE IF body = <<"n", "a", "n">> THEN Result(TRUE, NaN, "")
      ELSE IF body # <<>> /\ \A j \in 1..Len(body) : body[j] \in Digits
        THEN Result(TRUE, Round(IF neg THEN 0 - DigitsVal(body) ELSE DigitsVal(body)), "")
      ELSE Result(FALSE, NaN, "ValueError")

RECURSIVE NatText(_)
NatText(n) ==
  IF n < 10 THEN <<SubSeq(<<"0", "1", "2", "3", "4", "5", "6", "7", "8", "9">>, n + 1, n + 1)[1]>>
  ELSE NatText(n \div 10) \o NatText(n % 10)

\* repr(x) of a float, at the granularity of the model
FloatText(x) ==
  IF x.k = "nan" THEN <<"n", "a", "n">>
  ELSE IF x.k = "inf" THEN (IF x.n = 1 THEN <<"i", "n", "f">> ELSE <<"-", "i", "n", "f">>)
  ELSE IF x.n < 0 THEN <<"-">> \o NatText(0 - x.n)
  ELSE NatText(x.n)

----------------------------------------------------------------------------
(* JSON values as json.loads builds them *)

JInt(n) == [tag |-> "int", f |-> Fin(n), s |-> <<>>]
JFloat(x) == [tag |-> "float", f |-> x, s |-> <<>>]
JStr(s) == [tag |-> "str", f |-> Fin(0), s |-> s]
JBool(b) == [tag |-> "bool", f |-> Fin(IF b THEN 1 ELSE 0), s |-> <<>>]
JNull == [tag |-> "null", f |-> Fin(0), s |-> <<>>]

\* float(v)
PyFloat(v) ==
  CASE v.tag = "float" -> Result(TRUE, v.f, "")
    [] v.tag = "int" ->
         IF v.f.n > MaxFloat \/ v.f.n < 0 - MaxFloat
           THEN Result(FALSE, NaN, "OverflowError")
           ELSE Result(TRUE, v.f, "")
    [] v.tag = "bool" -> Result(TRUE, v.f, "")
    [] v.tag = "str" -> ParseFloat(v.s)
    [] OTHER -> Result(FALSE, NaN, "TypeError")

----------------------------------------------------------------------------
(* Lines of a recording file.  A line is invalid JSON ("bad"), blank, or   *)
(* a JSON value: an object ("obj", with its mapping hdr), an array ("arr", *)
(* with its elements elems), a string ("str", with its text s) or another  *)
(* scalar ("num").                                                         *)

NoMap == [x \in {} |-> JNull]
Line(kind, hdr, elems, s) == [kind |-> kind, hdr |-> hdr, elems |-> elems, s |-> s]
BadLine == Line("bad", NoMap, <<>>, <<>>)
BlankLine == Line("blank", NoMap, <<>>, <<>>)
ObjLine(m) == Line("obj", m, <<>>, <<>>)
ArrLine(es) == Line("arr", NoMap, es, <<>>)
StrLine(s) == Line("str", NoMap, <<>>, s)
NumLine == Line("num", NoMap, <<>>, <<>>)

\* e[0]
Subscript0(e) ==
  CASE e.kind = "arr" ->
         IF e.elems = <<>> THEN [ok |-> FALSE, v |-> JNull, err |-> "IndexError"]
         ELSE [ok |-> TRUE, v |-> e.elems[1], err |-> ""]
    [] e.kind = "str" ->
         IF e.s = <<>> THEN [ok |-> FALSE, v |-> JNull, err |-> "IndexError"]
         ELSE [ok |-> TRUE, v |-> JStr(<<e.s[1]>>), err |-> ""]
    [] e.kind = "obj" -> [ok |-> FALSE, v |-> JNull, err |-> "KeyError"]
    [] OTHER -> [ok |-> FALSE, v |-> JNull, err |-> "TypeError"]

\* variants of the window test: the lower bound exclusive, the upper bound
\* exclusive, either bound sufficient
InWindowAfterStart(t, lo, hi) == FLt(lo, t) /\ FLe(t, hi)
InWindowBeforeEnd(t, lo, hi) == FLe(lo, t) /\ FLt(t, hi)
InWindowEither(t, lo, hi) == FLe(lo, t) \/ FLe(t, hi)

\* start_s <= t <= end_s
InWindow(t, lo, hi) == FLe(lo, t) /\ FLe(t, hi)

\* variant: the timestamp is kept as it is
ShiftNone(t, lo) == t

\* the retimed timestamp t - start_s
Shift(t, lo) == FSub(t, lo)

\* One iteration of the clip loop on event e:
\*   t = float(e[0]); if start_s <= t <= end_s: e[0] = t - start_s; append
\* err is the exception raised, keep says whether e is appended, e is the
\* event object after the iteration.
ClipEvent(e, lo, hi) ==
  LET x == Subscript0(e)
      t == PyFloat(x.v)
  IN  IF ~x.ok THEN [err |-> x.err, keep |-> FALSE, e |-> e]
      ELSE IF ~t.ok THEN [err |-> t.err, keep |-> FALSE, e |-> e]
      ELSE IF ~InWindow(t.f, lo, hi) THEN [err |-> "", keep |-> FALSE, e |-> e]
      ELSE IF e.kind # "arr" THEN [err |-> "TypeError", keep |-> FALSE, e |-> e]
      ELSE [err |-> "", keep |-> TRUE,
            e |-> [e EXCEPT !.elems[1] = JFloat(Shift(t.f, lo))]]

\* variant: clipped.insert(0, e)
EmitFront(es, e) == <<e>> \o es

\* clipped.append(e)
Emit(es, e) == Append(es, e)

\* max(xs, default=0.0): the first item is kept until a later one compares
\* greater
RECURSIVE PyMaxFrom(_, _)
PyMaxFrom(m, xs) ==
  IF xs = <<>> THEN m
  ELSE PyMaxFrom(IF FLt(m, Head(xs)) THEN Head(xs) ELSE m, Tail(xs))

\* variant: the last item instead of the greatest
PyLast(xs) == IF xs = <<>> THEN Fin(0) ELSE xs[Len(xs)]

PyMax(xs) == IF xs = <<>> THEN Fin(0) ELSE PyMaxFrom(Head(xs), Tail(xs))

\* [e[0] for e in clipped]
Stamps(es) == [j \in 1..Len(es) |-> es[j].elems[1].f]

\* variant: header = {"duration": d}
SetDurationOnly(m, d) == [key \in {"duration"} |-> JFloat(d)]

\* header["duration"] = d on a dict
SetDuration(m, d) ==
  [key \in DOMAIN m \cup {"duration"} |-> IF key = "duration" THEN JFloat(d) ELSE m[key]]

\* [json.loads(line) for line in f if line.strip()]
RECURSIVE NonBlank(_)
NonBlank(ls) ==
  IF ls = <<>> THEN <<>>
  ELSE IF Head(ls).kind = "blank" THEN NonBlank(Tail(ls))
  ELSE <<Head(ls)>> \o NonBlank(Tail(ls))

----------------------------------------------------------------------------
(* The environment: command lines and files *)

InPath == <<"i">>
OutPath == <<"o">>
RePath == <<"r">>
Paths == {InPath, OutPath, RePath}

File(exists, writable, lines) == [exists |-> exists, writable |-> writable, lines |-> lines]
NoFile == File(FALSE, TRUE, <<>>)
OldFile == File(TRUE, TRUE, <<BlankLine>>)
LockedFile == File(FALSE, FALSE, <<>>)

\* element 0 of the event arrays of the input files
Timestamps ==
  { JFloat(Fin(0)), JFloat(Fin(1)), JFloat(Fin(2)), JInt(1),
    JFloat(PInf), JFloat(NInf), JStr(<<"1">>), JStr(<<"x">>), JBool(TRUE),
    JInt(MaxFloat + 1), JNull }

\* the lines an input file can hold at position j after the header; the
\* data element of an event names its position, so that no two events of
\* a file are equal
EventLinesAt(j) ==
  { ArrLine(<<t, JStr(<<"o">>), JStr(NatText(j))>>) : t \in Timestamps }
    \cup { ArrLine(<<>>), StrLine(<<"1">>), NumLine, ObjLine(NoMap), BadLine, BlankLine }

Bodies ==
  UNION { { b \in [1..n -> UNION { EventLinesAt(j) : j \in 1..n }] :
              \A j \in 1..n : b[j] \in EventLinesAt(j) } : n \in 0..MaxEvents }

\* first line of the input file with the state of the output path
Envs ==
  { <<ObjLine(NoMap), NoFile>>,
    <<ObjLine([version |-> JInt(2)]), OldFile>>,
    <<ObjLine([version |-> JInt(2), duration |-> JFloat(Fin(MaxFloat))]), NoFile>>,
    <<ObjLine([duration |-> JStr(<<"x">>)]), LockedFile>>,
    <<BadLine, OldFile>>,
    <<ArrLine(<<>>), NoFile>> }

\* the start and end arguments
Windows ==
  { <<<<"0">>, <<"2">>>>, <<<<"1">>, <<"1">>>>, <<<<"+", "1">>, <<" ", "2", " ">>>>,
    <<<<"2">>, <<"1">>>>, <<<<"i", "n", "f">>, <<"i", "n", "f">>>>,
    <<<<"-", "i", "n", "f">>, <<"2">>>>, <<<<"-", "2">>, <<"2">>>>,
    <<<<"0">>, <<"i", "n", "f", "i", "n", "i", "t", "y">>>>,
    <<<<"n", "a", "n">>, <<"2">>>>,
    <<<<"x">>, <<"1">>>>, <<<<"1">>, <<>>>> }

\* sys.argv[1:]
ArgLists ==
  { <<InPath, OutPath, win[1], win[2]>> : win \in Windows }
    \cup { <<>>, <<InPath, OutPath, <<"0">>>>,
           <<InPath, OutPath, <<"0">>, <<"2">>, <<"9">>>> }

----------------------------------------------------------------------------
(* The program *)

VARIABLES argv, fs, fs0, pc, err, inp, outp, start_s, end_s,
          header, events, i, clipped, w, handle, touched, run, first

vars == <<argv, fs, fs0, pc, err, inp, outp, start_s, end_s,
          header, events, i, clipped, w, handle, touched, run, first>>

\* the names the script has not bound yet
Unbound ==
  /\ inp = <<>> /\ outp = <<>> /\ start_s = NaN /\ end_s = NaN
  /\ header = BlankLine /\ events = <<>> /\ i = 0 /\ clipped = <<>> /\ w = 0

Init ==
  /\ argv \in ArgLists
  /\ \E env \in Envs : \E body \in Bodies :
       fs \in { [p \in Paths |->
                   IF p = InPath THEN File(TRUE, TRUE, <<env[1]>> \o body)
                   ELSE IF p = OutPath THEN env[2] ELSE NoFile],
                [p \in Paths |-> IF p = OutPath THEN env[2] ELSE NoFile],
                [p \in Paths |->
                   IF p = InPath THEN File(TRUE, TRUE, <<>>)
                   ELSE IF p = OutPath THEN env[2] ELSE NoFile] }
  /\ fs0 = fs
  /\ pc = "args" /\ err = ""
  /\ Unbound
  /\ handle = <<>> /\ touched = {}
  /\ run = 1
  /\ first = [start |-> NaN, end |-> NaN]

\* an uncaught exception: open files are closed by their with block and
\* the interpreter exits
Raise(e) ==
  /\ pc' = "failed" /\ err' = e /\ handle' = <<>>

\* line 7: inp, outp, start_s, end_s = sys.argv[1], sys.argv[2],
\*         float(sys.argv[3]), float(sys.argv[4])
ParseArgs ==
  /\ pc = "args"
  /\ IF Len(argv) < 4
       THEN /\ Raise("IndexError")
            /\ UNCHANGED <<inp, outp, start_s, end_s>>
     ELSE IF ~ParseFloat(argv[3]).ok \/ ~ParseFloat(argv[4]).ok
       THEN /\ Raise("ValueError")
            /\ UNCHANGED <<inp, outp, start_s, end_s>>
     ELSE /\ inp' = argv[1] /\ outp' = argv[2]
          /\ start_s' = ParseFloat(argv[3]).f
          /\ end_s' = ParseFloat(argv[4]).f
          /\ pc' = "open_in"
          /\ UNCHANGED <<err, handle>>
  /\ UNCHANGED <<argv, fs, fs0, header, events, i, clipped, w, touched, run, first>>

\* variant: the output is opened together with the input
OpenInputAndOutput ==
  /\ pc = "open_in"
  /\ IF ~fs[inp].exists
       THEN /\ Raise("FileNotFoundError")
            /\ UNCHANGED <<fs, touched>>
       ELSE /\ handle' = inp
            /\ fs' = [fs EXCEPT ![outp] = File(TRUE, TRUE, <<>>)]
            /\ touched' = touched \cup {inp, outp}
            /\ pc' = "read_header"
            /\ UNCHANGED err
  /\ UNCHANGED <<argv, fs0, inp, outp, start_s, end_s, header, events, i,
                 clipped, w, run, first>>

\* line 9: open(inp, "r")
OpenInput ==
  /\ pc = "open_in"
  /\ IF ~fs[inp].exists
       THEN /\ Raise("FileNotFoundError")
            /\ UNCHANGED touched
       ELSE /\ handle' = inp
            /\ touched' = touched \cup {inp}
            /\ pc' = "read_header"
            /\ UNCHANGED err
  /\ UNCHANGED <<argv, fs, fs0, inp, outp, start_s, end_s, header, events, i,
                 clipped, w, run, first>>

\* line 10: header = json.loads(f.readline())
ReadHeader ==
  /\ pc = "read_header"
  /\ LET ls == fs[inp].lines IN
       IF ls = <<>> \/ ls[1].kind \in {"bad", "blank"}
         THEN /\ Raise("JSONDecodeError")
              /\ UNCHANGED header
         ELSE /\ header' = ls[1]
              /\ pc' = "read_events"
              /\ UNCHANGED <<err, handle>>
  /\ UNCHANGED <<argv, fs, fs0, inp, outp, start_s, end_s, events, i,
                 clipped, w, touched, run, first>>

\* line 11: events = [json.loads(line) for line in f if line.strip()],
\* then the with block closes f; line 14: clipped = []
ReadEvents ==
  /\ pc = "read_events"
  /\ LET rest == Tail(fs[inp].lines) IN
       IF \E j \in 1..Len(rest) : rest[j].kind = "bad"
         THEN /\ Raise("JSONDecodeError")
              /\ UNCHANGED <<events, i, clipped>>
         ELSE /\ events' = NonBlank(rest)
              /\ handle' = <<>>
              /\ clipped' = <<>>
              /\ i' = 1
              /\ pc' = "clip"
              /\ UNCHANGED err
  /\ UNCHANGED <<argv, fs, fs0, inp, outp, start_s, end_s, header, w,
                 touched, run, first>>

\* lines 15-19: one iteration of  for e in events
ClipStep ==
  /\ pc = "clip"
  /\ i <= Len(events)
  /\ LET r == ClipEvent(events[i], start_s, end_s) IN
       IF r.err # ""
         THEN /\ Raise(r.err)
              /\ UNCHANGED <<events, i, clipped>>
         ELSE /\ events' = [events EXCEPT ![i] = r.e]
              /\ clipped' = IF r.keep THEN Emit(clipped, r.e) ELSE clipped
              /\ i' = i + 1
              /\ UNCHANGED <<pc, err, handle>>
  /\ UNCHANGED <<argv, fs, fs0, inp, outp, start_s, end_s, header, w,
                 touched, run, first>>

\* line 22: header["duration"] = max([e[0] for e in clipped], default=0.0)
UpdateDuration ==
  /\ pc = "clip"
  /\ i > Len(events)
  /\ IF header.kind # "obj"
       THEN /\ Raise("TypeError")
            /\ UNCHANGED header
       ELSE /\ header' = [header EXCEPT !.hdr = SetDuration(header.hdr, PyMax(Stamps(clipped)))]
            /\ pc' = "open_out"
            /\ UNCHANGED <<err, handle>>
  /\ UNCHANGED <<argv, fs, fs0, inp, outp, start_s, end_s, events, i,
                 clipped, w, touched, run, first>>

\* line 24: open(outp, "w") creates or truncates the file
OpenOutput ==
  /\ pc = "open_out"
  /\ IF ~fs[outp].writable
       THEN /\ Raise("PermissionError")
            /\ UNCHANGED <<fs, touched>>
       ELSE /\ fs' = [fs EXCEPT ![outp] = File(TRUE, TRUE, <<>>)]
            /\ handle' = outp
            /\ touched' = touched \cup {outp}
            /\ pc' = "write_header"
            /\ UNCHANGED err
  /\ UNCHANGED <<argv, fs0, inp, outp, start_s, end_s, header, events, i,
                 clipped, w, run, first>>

\* line 25: f.write(json.dumps(header) + "\n")
WriteHeader ==
  /\ pc = "write_header"
  /\ fs' = [fs EXCEPT ![outp].lines = Append(@, header)]
  /\ w' = 1
  /\ pc' = "write_events"
  /\ UNCHANGED <<argv, fs0, err, inp, outp, start_s, end_s, header, events, i,
                 clipped, handle, touched, run, first>>

\* lines 26-27: one iteration of  for e in clipped: f.write(json.dumps(e) + "\n")
WriteEvent ==
  /\ pc = "write_events"
  /\ w <= Len(clipped)
  /\ fs' = [fs EXCEPT ![outp].lines = Append(@, clipped[w])]
  /\ w' = w + 1
  /\ UNCHANGED <<argv, fs0, pc, err, inp, outp, start_s, end_s, header, events, i,
                 clipped, handle, touched, run, first>>

\* end of the with block of line 24 and of the script
CloseOutput ==
  /\ pc = "write_events"
  /\ w > Len(clipped)
  /\ handle' = <<>>
  /\ pc' = "done"
  /\ UNCHANGED <<argv, fs, fs0, err, inp, outp, start_s, end_s, header, events, i,
                 clipped, w, touched, run, first>>

\* A second invocation of the script on the output of the first one, with
\* start 0 and the written duration as end.
Reclip ==
  /\ pc = "done"
  /\ run = 1
  /\ run' = 2
  /\ first' = [start |-> start_s, end |-> end_s]
  /\ argv' = <<outp, RePath, <<"0">>, FloatText(fs[outp].lines[1].hdr["duration"].f)>>
  /\ fs0' = fs
  /\ pc' = "args"
  /\ inp' = <<>> /\ outp' = <<>> /\ start_s' = NaN /\ end_s' = NaN
  /\ header' = BlankLine /\ events' = <<>> /\ i' = 0 /\ clipped' = <<>> /\ w' = 0
  /\ touched' = {}
  /\ UNCHANGED <<fs, err, handle>>

Next ==
  \/ ParseArgs
  \/ OpenInput
  \/ ReadHeader
  \/ ReadEvents
  \/ ClipStep
  \/ UpdateDuration
  \/ OpenOutput
  \/ WriteHeader
  \/ WriteEvent
  \/ CloseOutput
  \/ Reclip

Spec == Init /\ [][Next]_vars

----------------------------------------------------------------------------
(* Vocabulary of the properties *)

Terminated == pc \in {"done", "failed"}

\* the events of the input file of the current run, as they were read
Orig == NonBlank(Tail(fs0[inp].lines))

\* the event lines and the header mapping of the output file
OutEvents == Tail(fs[outp].lines)
OutHeader == fs[outp].lines[1].hdr

\* the timestamp of input event j: its element 0 as a float
StampOf(j) == PyFloat(Subscript0(Orig[j]).v).f

\* the input events inside the window, by real comparison of floats
Kept == { j \in 1..Len(Orig) : FLe(start_s, StampOf(j)) /\ FLe(StampOf(j), end_s) }

\* input event j with its timestamp replaced by x
Retimed(j, x) == [Orig[j] EXCEPT !.elems[1] = JFloat(x)]

\* the position in the input file that an emitted event was read from
PosOf(e) == DigitsVal(e.elems[3].s)

FiniteStart == start_s.k = "fin"

----------------------------------------------------------------------------
(* C1 *)

EmittedAreKept ==
  /\ Len(OutEvents) = Cardinality(Kept)
  /\ \A j \in Kept : \E m \in 1..Len(OutEvents) :
       OutEvents[m] = Retimed(j, FSub(StampOf(j), start_s))

\* C1 (as stated): after a successful run the emitted events are exactly the
\* input events with start_s <= t <= end_s, each with element 0 replaced by
\* t - start_s and nothing else changed, and an event at exactly start_s is
\* emitted with timestamp 0.
C1_Original ==
  pc = "done" =>
    /\ EmittedAreKept
    /\ \A j \in Kept : StampOf(j) = start_s =>
         \E m \in 1..Len(OutEvents) : OutEvents[m] = Retimed(j, Fin(0))

\* C1 (amended): after a successful run the emitted events are exactly the
\* input events with start_s <= t <= end_s, each with element 0 replaced by
\* t - start_s and nothing else changed; when start_s is finite, an event at
\* exactly start_s is emitted with timestamp 0.
C1_ClipExact ==
  pc = "done" =>
    /\ EmittedAreKept
    /\ FiniteStart =>
         \A j \in Kept : StampOf(j) = start_s =>
           \E m \in 1..Len(OutEvents) : OutEvents[m] = Retimed(j, Fin(0))

\* a finished run with a positive finite start that dropped an event and
\* emitted one that lay at exactly start_s
C1_Witness ==
  /\ pc = "done" /\ run = 1 /\ FiniteStart /\ FLt(Fin(0), start_s)
  /\ Cardinality(Kept) < Len(Orig)
  /\ \E j \in Kept : StampOf(j) = start_s

----------------------------------------------------------------------------
(* C2 *)

StampsInRange ==
  \A m \in 1..Len(OutEvents) :
    /\ FLe(Fin(0), OutEvents[m].elems[1].f)
    /\ FLe(OutEvents[m].elems[1].f, FSub(end_s, start_s))

\* C2 (as stated): for 0 <= start <= end, every event in the output has
\* 0 <= timestamp <= end - start.
C2_Original ==
  (pc \in {"write_events", "done"} /\ FLe(Fin(0), start_s) /\ FLe(start_s, end_s))
    => StampsInRange

\* C2 (amended): for 0 <= start <= end with start finite, every event in the
\* output has 0 <= timestamp <= end - start.
C2_StampsInRange ==
  (pc \in {"write_events", "done"} /\ FiniteStart
     /\ FLe(Fin(0), start_s) /\ FLe(start_s, end_s))
    => StampsInRange

\* a finished run with a positive start that emitted the event at the end
\* of the window
C2_Witness ==
  /\ pc = "done" /\ run = 1 /\ FiniteStart
  /\ FLt(Fin(0), start_s) /\ FLt(start_s, end_s)
  /\ \E m \in 1..Len(OutEvents) : OutEvents[m].elems[1].f = FSub(end_s, start_s)

----------------------------------------------------------------------------
(* C3 *)

\* C3: the output events are a subsequence of the input events: each comes
\* from one input position, positions strictly increase along the output
\* (same relative order, no event twice), whatever the order of the input
\* timestamps.
C3_Subsequence ==
  pc \in {"write_events", "done"} /\ run = 1 =>
    /\ \A m \in 1..Len(OutEvents) :
         LET q == PosOf(OutEvents[m]) IN
           /\ q \in 1..(Len(fs0[inp].lines) - 1)
           /\ Tail(OutEvents[m].elems) = Tail(fs0[inp].lines[q + 1].elems)
    /\ \A m, n \in 1..Len(OutEvents) :
         m < n => PosOf(OutEvents[m]) < PosOf(OutEvents[n])

\* a finished run that emitted two events whose input timestamps decrease
C3_Witness ==
  /\ pc = "done" /\ run = 1
  /\ \E j, l \in Kept : j < l /\ FLt(StampOf(l), StampOf(j))
  /\ Len(OutEvents) >= 2

----------------------------------------------------------------------------
(* C4 *)

OutStamps == [m \in 1..Len(OutEvents) |-> OutEvents[m].elems[1].f]

DurationIsMax ==
  /\ "duration" \in DOMAIN OutHeader
  /\ OutHeader["duration"].tag = "float"
  /\ IF OutEvents = <<>> THEN OutHeader["duration"].f = Fin(0)
     ELSE /\ \E m \in 1..Len(OutEvents) : OutStamps[m] = OutHeader["duration"].f
          /\ \A m \in 1..Len(OutEvents) : FLe(OutStamps[m], OutHeader["duration"].f)

C4_WitnessEmpty ==
  /\ pc = "done" /\ run = 1 /\ OutEvents = <<>> /\ Orig # <<>>

----------------------------------------------------------------------------
(* C5 *)

ArgError ==
  \/ Len(argv) # 4
  \/ ~ParseFloat(argv[3]).ok
  \/ ~ParseFloat(argv[4]).ok

\* C5: an argument error (an argument count other than 4, or a start or end
\* that is not a number) makes the run fail with no file opened, created or
\* modified.
C5_ArgumentError ==
  (ArgError /\ pc # "args") => (pc = "failed" /\ touched = {} /\ fs = fs0)

----------------------------------------------------------------------------
(* C6 *)

\* the header line or a non-blank event line of f is not valid JSON
MalformedFile(f) ==
  /\ f.exists /\ f.lines # <<>>
  /\ \/ f.lines[1].kind \in {"bad", "blank"}
     \/ \E j \in 2..Len(f.lines) : f.lines[j].kind = "bad"

\* C6: when the header line or a non-blank event line of the input is not
\* valid JSON the run does not succeed and the output path is neither opened,
\* created nor truncated; the output path is opened only after every input
\* line has been read and parsed and the input handle has been closed.
C6_NoOutputOnParseFailure ==
  /\ (Len(argv) >= 4 /\ MalformedFile(fs0[argv[1]])) =>
       /\ pc # "done"
       /\ argv[2] \notin touched
       /\ fs[argv[2]] = fs0[argv[2]]
  /\ (pc # "args" /\ outp \in touched) =>
       /\ handle # inp
       /\ inp \in touched
       /\ ~MalformedFile(fs0[inp])
       /\ Len(events) = Len(Orig)

\* a run that read a valid header, failed on an invalid event line and left
\* the existing output file as it was
C6_Witness ==
  /\ pc = "failed" /\ err = "JSONDecodeError"
  /\ header.kind = "obj"
  /\ inp \in touched
  /\ fs0[outp] = OldFile /\ fs[outp] = OldFile

----------------------------------------------------------------------------
(* C7 *)

\* element 0 of e is missing or is not a JSON number
NonNumeric0(e) ==
  \/ ~Subscript0(e).ok
  \/ Subscript0(e).v.tag \notin {"int", "float"}

\* C7: when element 0 of some input event is missing or not a number, the
\* run aborts in the clip loop: it never gets to computing the duration or
\* writing output.
C7_NonNumericAborts ==
  (pc \in {"open_out", "write_header", "write_events", "done"}) =>
    \A j \in 1..Len(Orig) : ~NonNumeric0(Orig[j])

----------------------------------------------------------------------------
(* C8 *)

\* C8: every key of the input header other than duration is in the output
\* header with the same value, and the output header has no key that is
\* neither in the input header nor duration.
C8_HeaderFrame ==
  pc \in {"write_events", "done"} =>
    LET h0 == fs0[inp].lines[1].hdr IN
      /\ \A key \in DOMAIN h0 \ {"duration"} :
           key \in DOMAIN OutHeader /\ OutHeader[key] = h0[key]
      /\ DOMAIN OutHeader \subseteq DOMAIN h0 \cup {"duration"}

\* a finished run whose input header had a duration and another key and
\* whose duration was changed
C8_Witness ==
  /\ pc = "done" /\ run = 1
  /\ {"version", "duration"} \subseteq DOMAIN fs0[inp].lines[1].hdr
  /\ OutHeader["duration"] # fs0[inp].lines[1].hdr["duration"]

----------------------------------------------------------------------------
(* C9 *)

\* f is a recording: an object as header, then blank lines and arrays whose
\* element 0 is a JSON number in the range of a float
WellFormed(f) ==
  /\ f.exists /\ f.lines # <<>>
  /\ f.lines[1].kind = "obj"
  /\ \A j \in 2..Len(f.lines) :
       \/ f.lines[j].kind = "blank"
       \/ /\ f.lines[j].kind = "arr"
          /\ ~NonNumeric0(f.lines[j])
          /\ PyFloat(f.lines[j].elems[1]).ok

\* C9: with start > end nothing is ever retained, and on every recording
\* with a writable output path the run succeeds with zero events and
\* duration 0.0 in the output.
C9_MisuseEmpty ==
  /\ FLt(end_s, start_s) => clipped = <<>>
  /\ (Terminated /\ FLt(end_s, start_s) /\ WellFormed(fs0[inp]) /\ fs0[outp].writable) =>
       /\ pc = "done"
       /\ OutEvents = <<>>
       /\ OutHeader["duration"] = JFloat(Fin(0))

\* a finished run with start > end over a recording that has an event
\* between end and start and a header with another duration
C9_Witness ==
  /\ pc = "done" /\ run = 1 /\ FLt(end_s, start_s)
  /\ \E j \in 1..Len(Orig) : FLe(end_s, StampOf(j)) /\ FLe(StampOf(j), start_s)
  /\ "duration" \in DOMAIN fs0[inp].lines[1].hdr
  /\ OutHeader["duration"] # fs0[inp].lines[1].hdr["duration"]

----------------------------------------------------------------------------
(* C10 *)

ReclipSame ==
  /\ pc = "done"
  /\ fs[RePath].lines = fs[OutPath].lines

\* C10 (as stated): for start <= end, clipping the output of a clip again
\* with start 0 and its written duration as end yields the same recording.
C10_Original ==
  (run = 2 /\ Terminated /\ FLe(first.start, first.end)) => ReclipSame

\* C10 (amended): for start <= end with start finite, clipping the output of
\* a clip again with start 0 and its written duration as end yields the same
\* recording.
C10_ReclipNoOp ==
  (run = 2 /\ Terminated /\ first.start.k = "fin" /\ FLe(first.start, first.end))
    => ReclipSame

\* a finished second run over an output of two events that the first run
\* had shifted by a positive start
C10_Witness ==
  /\ run = 2 /\ pc = "done"
  /\ first.start.k = "fin" /\ FLt(Fin(0), first.start) /\ FLt(first.start, first.end)
  /\ Len(fs[RePath].lines) = 3
  /\ fs[RePath].lines[2].elems[1] # fs[RePath].lines[3].elems[1]

====
